---- MODULE Spec2Model ----
(***************************************************************************)
(* Model of the Lichess synchronisation pipeline:                          *)
(*   run_all_scripts.py  ->  fetch_games.py, fetch_rating_history.py,      *)
(*                           preprocess_and_upload.py                      *)
(* State: the games and rating history held by Lichess, the objects of the *)
(* user's Google Drive folder, the files of the working directory, the     *)
(* position of the run and the local state of an upload_to_drive call.     *)
(* An optional value (a file that may not exist, a request parameter that  *)
(* may be omitted) is a set with at most one element.                      *)
(* Spec follows whole pipeline runs, one action per script;                *)
(* SpecPreprocess runs preprocess_and_upload.py alone on any input files;  *)
(* SpecUpload follows one upload_to_drive call attempt by attempt.  The    *)
(* scripts call upload_to_drive as the closure of that attempt step.       *)
(* SpecTwoUsers follows the runs of two usernames, interleaved script by   *)
(* script, on one working directory and one Drive.                         *)
(* SpecRatingTable runs preprocess_and_upload.py alone on a rating history *)
(* of any content.                                                         *)
(***************************************************************************)
EXTENDS Integers, Sequences, FiniteSets, TLC

\* ---------------------------------------------------------------- bounds
MaxGames == 2        \* number of games Lichess ever holds for the user
MaxTime == 2         \* number of distinct createdAt instants
MaxRatingDay == 2    \* day-of-month values of rating points: 1..MaxRatingDay
MaxRatingPoints == 1 \* points of the rating history Lichess ever holds
MaxIncoming == 2     \* records of a temp_games file given to preprocess_and_upload.py
MaxExisting == 1     \* rows of a games CSV given to preprocess_and_upload.py
MaxRows == 2         \* rows of a games CSV given to upload_to_drive
MaxPoints == 2       \* points of a rating history given to preprocess_and_upload.py
SplitThreshold == 1  \* size (in records) above which the specification asks for parts

\* ------------------------------------------------------------- constants
max_retries == 5
MsPerSec == 1000

\* the usernames the pipeline is run for (sys.argv[1] of each process)
Users == {"alice", "bob"}

\* local paths (fetch_games.py 48-53, fetch_rating_history.py 43,
\* preprocess_and_upload.py 43-50), as the f-strings build them from the
\* username
OUTPUT_CSV_For(u) == <<"Player Data", u, "games_" \o u \o ".csv">>
TEMP_JSON_For(u) == <<"Player Data", u, "temp_games_" \o u \o ".json">>

\* a file name that does not carry the username
OUTPUT_JSON_Unkeyed(u) == <<"rating_history.json">>

\* fetch_rating_history.py writes into the current directory
OUTPUT_JSON_For(u) == <<"rating_history_" \o u \o ".json">>

RATING_HISTORY_INPUT_JSON_For(u) == <<"Player Data", u, "rating_history_" \o u \o ".json">>
RATING_HISTORY_OUTPUT_CSV_For(u) == <<"Player Data", u, "rating_history_" \o u \o ".csv">>

\* the local paths a run for username u reads or writes
PathsOf(u) == {OUTPUT_CSV_For(u), TEMP_JSON_For(u), OUTPUT_JSON_For(u),
               RATING_HISTORY_INPUT_JSON_For(u), RATING_HISTORY_OUTPUT_CSV_For(u)}

Paths == UNION {PathsOf(u) : u \in Users}

\* os.path.basename
basename(path) == path[Len(path)]

\* ------------------------------------------------------------ raw records
\* createdAt instants in milliseconds, straddling a second boundary
Times == {MsPerSec - 2 + i : i \in 1..MaxTime}
Variants == {"standard", "chess960"}
GameIds == 1..MaxGames
\* a raw record carries a tournament field (the tournament's id) only when the
\* game was played in a tournament
Tournaments == {{}, {"t1"}}
RawGames == [id : GameIds, createdAt : Times, variant : Variants, tournament : Tournaments]

\* a rating point [year, month0, day, rating] of one category; every point of
\* the model lies in one non-leap year, so the year is not carried
Categories == {"blitz", "rapid"}
RawPoints == [name : Categories, month0 : {0, 1}, day : {1, 31} \cup 1..MaxRatingDay,
              rating : {1500, 1520}]

\* ------------------------------------------------------- pure conversions
\* pd.to_datetime(ms, unit='ms'): an instant as (seconds, milliseconds)
to_datetime(ms) == [sec |-> ms \div MsPerSec, msec |-> ms % MsPerSec]

\* int(ts.timestamp() * 1000)
timestamp_ms(dt) == dt.sec * MsPerSec + dt.msec

DtLess(a, b) == a.sec < b.sec \/ (a.sec = b.sec /\ a.msec < b.msec)

\* Series.max() over the created_at column of a non-empty frame
DtMax(rows) ==
  CHOOSE r \in {rows[i].created_at : i \in 1..Len(rows)} :
    \A j \in 1..Len(rows) : ~DtLess(r, rows[j].created_at)

\* df.get('tournament') is not None: whether the frame built from the batch
\* has a tournament column, that is whether any record carries the field
tournament(games) == \E i \in 1..Len(games) : games[i].tournament # {}

\* one normalised row of the match schema (the columns the claims speak of);
\* the tournament column is assigned one value for the whole frame
NormalizeRow(g, flag) ==
  [game_id |-> g.id, created_at |-> to_datetime(g.createdAt), tournament |-> flag]

\* df[df['variant'] == 'standard']
KeepStandard(games) == SelectSeq(games, LAMBDA g : g.variant = "standard")

\* the normalisation block: one row per standard game, in batch order
Normalize(games) ==
  LET kept == KeepStandard(games)
  IN [i \in 1..Len(kept) |-> NormalizeRow(kept[i], tournament(games))]

IsSortedDesc(rows) ==
  \A i \in 1..(Len(rows) - 1) : ~DtLess(rows[i].created_at, rows[i + 1].created_at)

\* sort_values(by='created_at', ascending=False): the rows ordered by
\* created_at descending; the order among equal keys is not fixed by the call
\* (default kind='quicksort'), so every such order is an outcome
sort_values(rows) ==
  {s \in {[i \in 1..Len(rows) |-> rows[p[i]]] : p \in Permutations(1..Len(rows))} :
     IsSortedDesc(s)}

\* pd.concat([df_new, df_old]) when OUTPUT_CSV exists, else df_new
Combine(df_new, old) ==
  IF old = {} THEN df_new ELSE df_new \o (CHOOSE d \in old : TRUE)

\* ---------------------------------------------------------- rating table
DaysInMonth == <<31, 28, 31, 30, 31, 30, 31, 31, 30, 31, 30, 31>>

\* datetime(y, m, d) raises ValueError outside these ranges
ValidDate(m, d) == m \in 1..12 /\ d \in 1..DaysInMonth[m]

RECURSIVE DaysBefore(_)
DaysBefore(m) == IF m = 1 THEN 0 ELSE DaysBefore(m - 1) + DaysInMonth[m - 1]

\* a date as its day of the year
DayOfYear(m, d) == DaysBefore(m) + d

\* rating_rows: the points whose date is valid, month corrected to 1-based
rating_rows(points) ==
  {[category |-> p.name, date |-> DayOfYear(p.month0 + 1, p.day), rating |-> p.rating] :
     p \in {q \in points : ValidDate(q.month0 + 1, q.day)}}

\* pivot raises on an empty frame and on two entries for one (date, category)
PivotRaises(rr) ==
  \/ rr = {}
  \/ \E a \in rr, b \in rr : a # b /\ a.category = b.category /\ a.date = b.date

MinDate(rr) == CHOOSE d \in {r.date : r \in rr} : \A r \in rr : d <= r.date
MaxDate(rr) == CHOOSE d \in {r.date : r \in rr} : \A r \in rr : d >= r.date

\* the reindexed table without the ffill() step: a value on the days of the
\* points only
ffill_NoFill(rr, c, day) ==
  {r.rating : r \in {x \in rr : x.category = c /\ x.date = day}}

\* every.reindex(all_dates).ffill(): the value at a day is the point of that
\* day, else the filled value of the previous day, else absent
RECURSIVE ffill(_, _, _)
ffill(rr, c, day) ==
  LET here == {r.rating : r \in {x \in rr : x.category = c /\ x.date = day}}
  IN IF here # {} THEN here
     ELSE IF day <= MinDate(rr) THEN {}
     ELSE ffill(rr, c, day - 1)

\* the rating table, one row per day of the range, sorted by date descending
RatingTable(rr) ==
  LET lo == MinDate(rr)
      hi == MaxDate(rr)
      cats == {r.category : r \in rr}
  IN [i \in 1..(hi - lo + 1) |->
        [date |-> hi - i + 1, rating |-> [c \in cats |-> ffill(rr, c, hi - i + 1)]]]

\* ----------------------------------------------------------------- state
VARIABLES
  source,     \* username -> the games Lichess holds for the user (raw records)
  srcRating,  \* username -> the rating history Lichess holds (raw points)
  folder,     \* username -> whether the Drive folder of that name exists
  drive,      \* (folder, file name) -> the objects of that name in the folder
  nextId,     \* the id Drive gives to the next created object
  fs,         \* local path -> content of the file, {} when it does not exist
  user,       \* the username of the run that takes the steps
  pc,         \* position of the run
  exitCode,   \* exit code of run_all_scripts
  up,         \* the local state of an upload_to_drive call followed step by step
  run,        \* what the current run saw, asked for and uploaded
  peer        \* the run for another username, while it is not taking steps

vars == <<source, srcRating, folder, drive, nextId, fs, user, pc, exitCode, up, run, peer>>

\* USERNAME = sys.argv[1]
USERNAME == user

OUTPUT_CSV == OUTPUT_CSV_For(USERNAME)
TEMP_JSON == TEMP_JSON_For(USERNAME)
OUTPUT_JSON == OUTPUT_JSON_For(USERNAME)
RATING_HISTORY_INPUT_JSON == RATING_HISTORY_INPUT_JSON_For(USERNAME)
RATING_HISTORY_OUTPUT_CSV == RATING_HISTORY_OUTPUT_CSV_For(USERNAME)

\* get_or_create_user_folder(USERNAME): the folder is looked up, and created,
\* by the name USERNAME
USER_FOLDER_ID == USERNAME

\* the Drive query "name='{file_name}' and '{folder_id}' in parents" of the
\* file at a local path
DriveName(path) == <<USER_FOLDER_ID, basename(path)>>

GAMES_NAME == DriveName(OUTPUT_CSV)
RATING_JSON_NAME == DriveName(OUTPUT_JSON)
RATING_CSV_NAME == DriveName(RATING_HISTORY_OUTPUT_CSV)

\* the names a run for username u looks up in its folder
DriveNamesOf(u) == {<<u, basename(p)>> : p \in {OUTPUT_CSV_For(u), OUTPUT_JSON_For(u),
                                                   RATING_HISTORY_OUTPUT_CSV_For(u)}}

DriveNames == UNION {DriveNamesOf(u) : u \in Users}

\* exception classes a Drive call can raise: HttpError (server error or an
\* authentication failure), IOError, ssl.SSLEOFError, anything else
Errors == {"HttpError_5xx", "HttpError_401", "IOError", "SSLEOFError", "Exception"}

\* a bare "except Exception" in place of the three classes
Caught_Everything == Errors

\* except (HttpError, IOError, ssl.SSLEOFError)
Caught == {"HttpError_5xx", "HttpError_401", "IOError", "SSLEOFError"}

\* wait_time = 2 * attempt in place of 2 ** attempt
wait_time_Linear(attempt) == 2 * attempt

\* wait_time = 2 ** attempt
wait_time(attempt) == 2 ^ attempt

\* "if attempt < max_retries" in place of "max_retries - 1"
ShouldRetry_OffByOne(e, attempt) == e \in Caught /\ attempt < max_retries

\* the except clause: a caught error before the last attempt sleeps and
\* retries, anything else propagates
ShouldRetry(e, attempt) == e \in Caught /\ attempt < max_retries - 1

UpIdle == [file |-> {}, attempts |-> 0, delays |-> <<>>, writes |-> 0,
           status |-> "idle", err |-> {}]

\* entry of upload_to_drive(file_path, folder_id)
UpStart(path) == [UpIdle EXCEPT !.file = {path}, !.status = "running"]

\* what a run has seen and done: the folder at its start, the dataset
\* fetch_games.py loaded, the parameters and the response of its request, the
\* rating history fetched, the names of the files whose upload returned,
\* whether a game was added to Lichess since the previous run started (fresh;
\* pending: since this run started), whether the previous run completed
RunIdle == [drive0 |-> drive, existing |-> {}, params |-> {}, fetched |-> {},
            rating |-> {}, uploaded |-> {}, fresh |-> FALSE, pending |-> FALSE,
            prevDone |-> FALSE]

CleanFs == [p \in Paths |-> {}]
EmptyDrive == [n \in DriveNames |-> {}]
NoFolders == [u \in Users |-> FALSE]
Nothing == [u \in Users |-> {}]

\* no run for another username
PeerIdle ==
  [user |-> "bob", pc |-> "idle", exitCode |-> 0,
   run |-> [drive0 |-> EmptyDrive, existing |-> {}, params |-> {}, fetched |-> {},
            rating |-> {}, uploaded |-> {}, fresh |-> FALSE, pending |-> FALSE,
            prevDone |-> FALSE]]

Init ==
  /\ user = "alice"
  /\ peer = PeerIdle
  /\ source = Nothing
  /\ srcRating = Nothing
  /\ folder = NoFolders
  /\ drive = EmptyDrive
  /\ nextId = 1
  /\ fs = CleanFs
  /\ pc = "idle"
  /\ exitCode = 0
  /\ up = UpIdle
  /\ run = [drive0 |-> EmptyDrive, existing |-> {}, params |-> {}, fetched |-> {},
            rating |-> {}, uploaded |-> {}, fresh |-> FALSE, pending |-> FALSE,
            prevDone |-> FALSE]

Resting == pc \in {"idle", "done", "failed"}

\* the contents of the games objects of the folder
Published(d) == {f.content : f \in d[GAMES_NAME]}

\* ----------------------------------------------------------- environment
\* a game is played, outside a tournament: Lichess stamps it with the current
\* time, so no earlier than any game it already holds
NewGame ==
  /\ Resting
  /\ Cardinality(source[USERNAME]) < MaxGames
  /\ \E t \in Times, v \in Variants :
       /\ \A g \in source[USERNAME] : g.createdAt <= t
       /\ source' = [source EXCEPT ![USERNAME] =
                       @ \cup {[id |-> Cardinality(@) + 1, createdAt |-> t, variant |-> v,
                                tournament |-> {}]}]
  /\ run' = [run EXCEPT !.pending = TRUE]
  /\ UNCHANGED <<srcRating, folder, drive, nextId, fs, user, pc, exitCode, up, peer>>

\* a rated game changes the rating: Lichess appends a point for a later day
RatingChange ==
  /\ Resting
  /\ Cardinality(srcRating[USERNAME]) < MaxRatingPoints
  /\ srcRating' = [srcRating EXCEPT ![USERNAME] =
                     @ \cup {[name |-> "blitz", month0 |-> 0, day |-> Cardinality(@) + 1,
                              rating |-> 1500]}]
  /\ UNCHANGED <<source, folder, drive, nextId, fs, user, pc, exitCode, up, run, peer>>

\* ------------------------------------------------------ run_all_scripts.py
\* main() starts the first script
StartRun ==
  /\ Resting
  /\ pc' = "fetch_games"
  /\ exitCode' = 0
  /\ run' = [RunIdle EXCEPT !.fresh = run.pending, !.prevDone = (pc = "done")]
  /\ UNCHANGED <<source, srcRating, folder, drive, nextId, fs, user, up, peer>>

\* a main() without the "if exit_code != 0" test: the next script is started
\* whatever the exit code
Crash_KeepGoing ==
  /\ pc' = CASE pc = "fetch_games" -> "fetch_rating"
             [] pc = "fetch_rating" -> "preprocess"
             [] OTHER -> "done"
  /\ exitCode' = 1

\* an uncaught exception ends the script with exit code 1 and main() exits
\* with that code
Crash ==
  /\ pc' = "failed"
  /\ exitCode' = 1

\* ------------------------------------------------------------ Drive calls
\* a write that sends only the first SplitThreshold records of the file
DriveWrite_FirstPart(d, n, name, content) ==
  LET part == IF Len(content) > SplitThreshold
              THEN SubSeq(content, 1, SplitThreshold) ELSE content
  IN IF d[name] # {}
     THEN {[drive |-> [d EXCEPT ![name] = (@ \ {f}) \cup {[id |-> f.id, content |-> part]}],
            nextId |-> n] : f \in d[name]}
     ELSE {[drive |-> [d EXCEPT ![name] = @ \cup {[id |-> n, content |-> part]}],
            nextId |-> n + 1]}

\* a write that creates an object without looking one up
DriveWrite_AlwaysCreate(d, n, name, content) ==
  {[drive |-> [d EXCEPT ![name] = @ \cup {[id |-> n, content |-> content]}],
    nextId |-> n + 1]}

\* files().update(fileId=files[0]["id"]) when the lookup found objects, else
\* files().create(), on the folder d whose next object id is n: the Drive
\* states the call can leave (files[0] is any of the objects found)
DriveWrite(d, n, name, content) ==
  IF d[name] # {}
  THEN {[drive |-> [d EXCEPT ![name] = (@ \ {f}) \cup {[id |-> f.id, content |-> content]}],
         nextId |-> n] : f \in d[name]}
  ELSE {[drive |-> [d EXCEPT ![name] = @ \cup {[id |-> n, content |-> content]}],
         nextId |-> n + 1]}

\* the lines of the file at a path that exists
ReadFile(path) == CHOOSE c \in fs[path] : TRUE

\* ------------------------------------------------- upload_to_drive (retry)
\* the file of an upload_to_drive call
UpPath(u) == CHOOSE f \in u.file : TRUE

\* one iteration of the retry loop up to its break, sleep or raise, from the
\* state s of the call (its local state and the folder):
\* lookup, then update or create.  An error is raised by the lookup or by the
\* write; a write that raised may or may not have taken effect in Drive.
upload_attempt(s, content) ==
  LET attempt == s.up.attempts
      written == DriveWrite(s.drive, s.nextId, DriveName(UpPath(s.up)), content)
      untouched == {[drive |-> s.drive, nextId |-> s.nextId]}
      returned == {[up |-> [s.up EXCEPT !.attempts = @ + 1, !.writes = @ + 1,
                                        !.status = "ok"],
                    drive |-> w.drive, nextId |-> w.nextId] :
                     w \in written}
      handler(e) == IF ShouldRetry(e, attempt)
                    THEN [s.up EXCEPT !.attempts = @ + 1, !.err = {e}, !.status = "sleeping",
                                      !.delays = Append(@, wait_time(attempt))]
                    ELSE [s.up EXCEPT !.attempts = @ + 1, !.err = {e},
                                      !.status = "raised"]
      raised == UNION {{[up |-> handler(e), drive |-> w.drive, nextId |-> w.nextId] :
                          w \in (IF applied THEN written ELSE untouched)} :
                        e \in Errors, applied \in BOOLEAN}
  IN returned \cup raised

\* time.sleep(wait_time) returns: the except clause ends, the exception is
\* dropped and the loop goes to its next iteration
sleep(s) == [s EXCEPT !.up.err = {}, !.up.status = "running"]

\* the loop run to its end from each state of S: the states in which the call
\* returns or raises
RECURSIVE upload_loop(_, _)
upload_loop(S, content) ==
  LET running == {s \in S : s.up.status = "running"}
      sleeping == {s \in S : s.up.status = "sleeping"}
  IN IF running \cup sleeping = {} THEN S
     ELSE upload_loop((S \ (running \cup sleeping))
                        \cup UNION {upload_attempt(s, content) : s \in running}
                        \cup {sleep(s) : s \in sleeping},
                      content)

\* upload_to_drive(path, folder_id) called on the folder d: whether the call
\* returns or raises, and the folder it leaves
upload_to_drive(path, content, d, n) ==
  {[status |-> s.up.status, drive |-> s.drive, nextId |-> s.nextId] :
     s \in upload_loop({[up |-> UpStart(path), drive |-> d, nextId |-> n]}, content)}

\* one iteration of the retry loop of the call in progress
UploadAttempt ==
  /\ pc = "upload"
  /\ up.status = "running"
  /\ \E s \in upload_attempt([up |-> up, drive |-> drive, nextId |-> nextId],
                              ReadFile(UpPath(up))) :
       /\ up' = s.up
       /\ drive' = s.drive
       /\ nextId' = s.nextId
       /\ CASE s.up.status = "ok" -> pc' = "uploaded" /\ UNCHANGED exitCode
            [] s.up.status = "raised" -> Crash
            [] OTHER -> UNCHANGED <<pc, exitCode>>
  /\ UNCHANGED <<source, srcRating, folder, fs, user, run, peer>>

\* the backoff delay of the call in progress is over
Sleep ==
  /\ pc = "upload"
  /\ up.status = "sleeping"
  /\ up' = sleep([up |-> up]).up
  /\ UNCHANGED <<source, srcRating, folder, drive, nextId, fs, user, pc, exitCode, run, peer>>

\* ---------------------------------------------------------- fetch_games.py
\* the games Lichess returns for a request: those created at or after since,
\* newest first (any order among games of one instant)
Response(since) ==
  LET match == {g \in source[USERNAME] : \A t \in since : g.createdAt >= t}
      n == Cardinality(match)
  IN {s \in [1..n -> match] :
        /\ \A g \in match : \E i \in 1..n : s[i] = g
        /\ \A i \in 1..(n - 1) : s[i].createdAt >= s[i + 1].createdAt}

\* max_created_at: 0 unless a dataset was downloaded
max_created_at(existing) ==
  IF existing = {} THEN 0 ELSE timestamp_ms(DtMax(CHOOSE d \in existing : TRUE))

\* since = max_created_at in place of max_created_at + 1
params_Inclusive(existing) ==
  IF max_created_at(existing) > 0
  THEN [since |-> {max_created_at(existing)}]
  ELSE [since |-> {}]

\* params: since = max_created_at + 1 when a watermark was found
params(existing) ==
  IF max_created_at(existing) > 0
  THEN [since |-> {max_created_at(existing) + 1}]
  ELSE [since |-> {}]

\* the whole script
FetchGames ==
  /\ pc = "fetch_games"
  /\ \E folderRes \in {"ok", "error"}, dl \in {"ok", "error"}, http \in {"ok", "error"} :
       IF folderRes = "error"
       THEN /\ Crash
            /\ UNCHANGED <<folder, fs, drive, nextId, run>>
       ELSE
         \E existing \in {IF dl = "ok" THEN {f.content} ELSE {} : f \in drive[GAMES_NAME]}
                          \cup (IF drive[GAMES_NAME] = {} THEN {{}} ELSE {}) :
           LET fs1 == IF existing # {} THEN [fs EXCEPT ![OUTPUT_CSV] = existing] ELSE fs
           IN /\ folder' = [folder EXCEPT ![USERNAME] = TRUE]
              /\ IF existing = {<<>>}
                 THEN \* max() of an empty created_at column is NaT: timestamp() raises
                      /\ Crash
                      /\ fs' = fs1
                      /\ run' = [run EXCEPT !.existing = existing]
                      /\ UNCHANGED <<drive, nextId>>
                 ELSE IF http = "error"
                 THEN \* raise_for_status()
                      /\ Crash
                      /\ fs' = fs1
                      /\ run' = [run EXCEPT !.existing = existing, !.params = {params(existing)}]
                      /\ UNCHANGED <<drive, nextId>>
                 ELSE \E games \in Response(params(existing).since) :
                      LET run1 == [run EXCEPT !.existing = existing,
                                              !.params = {params(existing)},
                                              !.fetched = {games}]
                      IN IF games = <<>>
                         THEN \* unpacking zip(*df.apply(...)) of an empty frame raises
                              /\ Crash
                              /\ fs' = [fs1 EXCEPT ![TEMP_JSON] = {games}]
                              /\ run' = run1
                              /\ UNCHANGED <<drive, nextId>>
                         ELSE /\ fs' = [fs1 EXCEPT ![OUTPUT_CSV] = {Normalize(games)},
                                                   ![TEMP_JSON] = {}]
                              /\ \E o \in upload_to_drive(OUTPUT_CSV, Normalize(games), drive,
                                                          nextId) :
                                   /\ drive' = o.drive
                                   /\ nextId' = o.nextId
                                   /\ IF o.status = "raised"
                                      THEN Crash /\ run' = run1
                                      ELSE /\ pc' = "fetch_rating"
                                           /\ run' = [run1 EXCEPT !.uploaded = @ \cup {GAMES_NAME}]
                                           /\ UNCHANGED exitCode
  /\ UNCHANGED <<source, srcRating, user, up, peer>>

\* ------------------------------------------------- fetch_rating_history.py
\* the whole script; its upload_to_drive makes a single attempt
FetchRatingHistory ==
  /\ pc = "fetch_rating"
  /\ \E folderRes \in {"ok", "error"}, dl \in {"ok", "error"}, http \in {"ok", "error"},
        upl \in {"ok", "error", "error_applied"} :
       IF folderRes = "error"
       THEN /\ Crash
            /\ UNCHANGED <<folder, fs, drive, nextId, run>>
       ELSE
         \E old \in {IF dl = "ok" THEN {f.content} ELSE {} : f \in drive[RATING_JSON_NAME]}
                     \cup (IF drive[RATING_JSON_NAME] = {} THEN {{}} ELSE {}) :
           LET fs1 == IF old # {} THEN [fs EXCEPT ![OUTPUT_JSON] = old] ELSE fs
           IN /\ folder' = [folder EXCEPT ![USERNAME] = TRUE]
              /\ IF http = "error"
                 THEN /\ Crash
                      /\ fs' = fs1
                      /\ UNCHANGED <<drive, nextId, run>>
                 ELSE /\ fs' = [fs1 EXCEPT ![OUTPUT_JSON] = {srcRating[USERNAME]}]
                      /\ run' = [run EXCEPT !.rating = {srcRating[USERNAME]},
                                            !.uploaded = IF upl = "ok"
                                                         THEN @ \cup {RATING_JSON_NAME} ELSE @]
                      /\ \E w \in DriveWrite(drive, nextId, RATING_JSON_NAME, srcRating[USERNAME]) :
                           IF upl = "error"
                           THEN UNCHANGED <<drive, nextId>>
                           ELSE drive' = w.drive /\ nextId' = w.nextId
                      /\ IF upl = "ok"
                         THEN pc' = "preprocess" /\ UNCHANGED exitCode
                         ELSE Crash
  /\ UNCHANGED <<source, srcRating, user, up, peer>>

\* ------------------------------------------------ preprocess_and_upload.py
\* "Process new games and combine with existing CSV": the file systems the
\* block can leave
MergeGames(f) ==
  IF f[TEMP_JSON] = {} THEN {f}
  ELSE LET new_games == CHOOSE c \in f[TEMP_JSON] : TRUE
       IN IF new_games = <<>>
          THEN {[f EXCEPT ![TEMP_JSON] = {}]}
          ELSE {[f EXCEPT ![OUTPUT_CSV] = {df_combined}, ![TEMP_JSON] = {}] :
                  df_combined \in sort_values(Combine(Normalize(new_games), f[OUTPUT_CSV]))}

\* "Process rating history": the rows built from the input JSON, when it exists
RatingInput(f) ==
  IF f[RATING_HISTORY_INPUT_JSON] = {} THEN {}
  ELSE rating_rows(CHOOSE c \in f[RATING_HISTORY_INPUT_JSON] : TRUE)

\* the whole script: the merge block, the rating table, then the uploads of
\* lines 236-241
Preprocess ==
  /\ pc = "preprocess"
  /\ \E folderRes \in {"ok", "error"}, fsA \in MergeGames(fs) :
       LET hasRating == fsA[RATING_HISTORY_INPUT_JSON] # {}
           rr == RatingInput(fsA)
           fsB == IF hasRating /\ ~PivotRaises(rr)
                  THEN [fsA EXCEPT ![RATING_HISTORY_OUTPUT_CSV] = {RatingTable(rr)}]
                  ELSE fsA
           start == [status |-> "idle", drive |-> drive, nextId |-> nextId,
                     uploaded |-> run.uploaded]
           \* if os.path.exists(path): upload_to_drive(path, USER_FOLDER_ID), from
           \* each state of S in which nothing was raised
           upload(S, path) ==
             IF fsB[path] = {} THEN S
             ELSE UNION {IF s.status = "raised" THEN {s}
                         ELSE {[status |-> o.status, drive |-> o.drive, nextId |-> o.nextId,
                                uploaded |-> IF o.status = "ok"
                                             THEN s.uploaded \cup {DriveName(path)}
                                             ELSE s.uploaded] :
                                 o \in upload_to_drive(path, CHOOSE c \in fsB[path] : TRUE,
                                                       s.drive, s.nextId)} : s \in S}
       IN /\ fs' = fsB
          /\ IF hasRating /\ PivotRaises(rr)
             THEN Crash /\ UNCHANGED <<folder, drive, nextId, run>>
             ELSE IF folderRes = "error"
             THEN Crash /\ UNCHANGED <<folder, drive, nextId, run>>
             ELSE /\ folder' = [folder EXCEPT ![USERNAME] = TRUE]
                  /\ \E o \in upload(upload({start}, OUTPUT_CSV), RATING_HISTORY_OUTPUT_CSV) :
                       /\ drive' = o.drive
                       /\ nextId' = o.nextId
                       /\ run' = [run EXCEPT !.uploaded = o.uploaded]
                       /\ IF o.status = "raised"
                          THEN Crash
                          ELSE pc' = "done" /\ UNCHANGED exitCode
  /\ UNCHANGED <<source, srcRating, user, up, peer>>

Next ==
  \/ NewGame
  \/ RatingChange
  \/ StartRun
  \/ FetchGames
  \/ FetchRatingHistory
  \/ Preprocess

Spec == Init /\ [][Next]_vars

\* ------------------------------------- preprocess_and_upload.py run alone
\* the script started on a working directory that holds a temp_games file and
\* a games CSV, or a rating history, of any content
DistinctIds(games) ==
  \A i \in 1..Len(games), j \in 1..Len(games) : i # j => games[i].id # games[j].id

DistinctGameIds(rows) ==
  \A i \in 1..Len(rows), j \in 1..Len(rows) : i # j => rows[i].game_id # rows[j].game_id

SeqsUpTo(S, n) == UNION {[1..k -> S] : k \in 0..n}

IncomingFiles ==
  {{}} \cup {{s} : s \in {q \in SeqsUpTo(RawGames, MaxIncoming) :
                            DistinctIds(q)}}

Rows == [game_id : GameIds, created_at : {to_datetime(t) : t \in Times}, tournament : {FALSE}]

\* the games CSVs of at most n rows that the pipeline writes: one row per
\* game, newest first
GamesFiles(n) ==
  {q \in SeqsUpTo(Rows, n) : DistinctGameIds(q) /\ IsSortedDesc(q)}

ExistingFiles == {{}} \cup {{s} : s \in GamesFiles(MaxExisting)}

RatingFiles == {{{s[i] : i \in 1..Len(s)}} : s \in SeqsUpTo(RawPoints, MaxPoints)}

InitPreprocess ==
  /\ user = "alice"
  /\ peer = PeerIdle
  /\ source = Nothing
  /\ srcRating = Nothing
  /\ folder = NoFolders
  /\ drive = EmptyDrive
  /\ nextId = 1
  /\ \/ \E t \in IncomingFiles, c \in ExistingFiles :
          fs = [CleanFs EXCEPT ![TEMP_JSON] = t, ![OUTPUT_CSV] = c]
     \/ \E r \in RatingFiles :
          fs = [CleanFs EXCEPT ![RATING_HISTORY_INPUT_JSON] = r]
  /\ pc = "preprocess"
  /\ exitCode = 0
  /\ up = UpIdle
  /\ run = [drive0 |-> EmptyDrive, existing |-> fs[OUTPUT_CSV], params |-> {},
            fetched |-> fs[TEMP_JSON], rating |-> fs[RATING_HISTORY_INPUT_JSON],
            uploaded |-> {}, fresh |-> FALSE, pending |-> FALSE, prevDone |-> FALSE]

NextPreprocess == Preprocess

SpecPreprocess == InitPreprocess /\ [][NextPreprocess]_vars

\* the script started on a working directory that holds a rating history of
\* any content and no games file
InitRatingTable ==
  /\ user = "alice"
  /\ peer = PeerIdle
  /\ source = Nothing
  /\ srcRating = Nothing
  /\ folder = NoFolders
  /\ drive = EmptyDrive
  /\ nextId = 1
  /\ \E r \in RatingFiles : fs = [CleanFs EXCEPT ![RATING_HISTORY_INPUT_JSON] = r]
  /\ pc = "preprocess"
  /\ exitCode = 0
  /\ up = UpIdle
  /\ run = [drive0 |-> EmptyDrive, existing |-> {}, params |-> {}, fetched |-> {},
            rating |-> fs[RATING_HISTORY_INPUT_JSON], uploaded |-> {}, fresh |-> FALSE,
            pending |-> FALSE, prevDone |-> FALSE]

SpecRatingTable == InitRatingTable /\ [][NextPreprocess]_vars

\* ------------------------------------------------ upload_to_drive run alone
\* a call of upload_to_drive on a games CSV, the folder holding no object of
\* the file's name or the object an earlier upload left
EarlierObjects == {{}} \cup {{[id |-> 1, content |-> c]} : c \in GamesFiles(MaxRows)}

InitUpload ==
  /\ user = "alice"
  /\ peer = PeerIdle
  /\ source = Nothing
  /\ srcRating = Nothing
  /\ folder = [NoFolders EXCEPT ![USERNAME] = TRUE]
  /\ \E objects \in EarlierObjects :
       /\ drive = [EmptyDrive EXCEPT ![GAMES_NAME] = objects]
       /\ nextId = 1 + Cardinality(objects)
  /\ \E c \in GamesFiles(MaxRows) : fs = [CleanFs EXCEPT ![OUTPUT_CSV] = {c}]
  /\ pc = "upload"
  /\ exitCode = 0
  /\ up = UpStart(OUTPUT_CSV)
  /\ run = [drive0 |-> drive, existing |-> {}, params |-> {}, fetched |-> {},
            rating |-> {}, uploaded |-> {}, fresh |-> FALSE, pending |-> FALSE,
            prevDone |-> FALSE]

NextUpload ==
  \/ UploadAttempt
  \/ Sleep

SpecUpload == InitUpload /\ [][NextUpload]_vars

\* ------------------------------------------------- runs of two usernames
\* the scheduler turns from the run for one username to the run for the other
Switch ==
  /\ user' = peer.user
  /\ pc' = peer.pc
  /\ exitCode' = peer.exitCode
  /\ run' = peer.run
  /\ peer' = [user |-> user, pc |-> pc, exitCode |-> exitCode, run |-> run]
  /\ UNCHANGED <<source, srcRating, folder, drive, nextId, fs, up>>

\* what Lichess holds for the two users: no game or one game each (game ids
\* are unique across Lichess), one rating point each
LichessGames ==
  {[alice |-> a, bob |-> b] :
     a \in {{}} \cup {{[id |-> 1, createdAt |-> t, variant |-> v, tournament |-> {}]} :
                        t \in Times, v \in Variants},
     b \in {{}} \cup {{[id |-> 2, createdAt |-> t, variant |-> v, tournament |-> {}]} :
                        t \in Times, v \in Variants}}

LichessRatings ==
  {[alice |-> {[name |-> "blitz", month0 |-> 0, day |-> 1, rating |-> 1500]},
    bob |-> {[name |-> "blitz", month0 |-> 0, day |-> 1, rating |-> 1520]}]}

\* run_all_scripts.py has been started for both usernames, on an empty
\* working directory and a Drive without folders
InitTwoUsers ==
  /\ user = "alice"
  /\ peer = [PeerIdle EXCEPT !.pc = "fetch_games"]
  /\ source \in LichessGames
  /\ srcRating \in LichessRatings
  /\ folder = NoFolders
  /\ drive = EmptyDrive
  /\ nextId = 1
  /\ fs = CleanFs
  /\ pc = "fetch_games"
  /\ exitCode = 0
  /\ up = UpIdle
  /\ run = PeerIdle.run

\* the pipeline is run again for a username whose run completed
Rerun == pc = "done" /\ StartRun

NextTwoUsers ==
  \/ Switch
  \/ Rerun
  \/ FetchGames
  \/ FetchRatingHistory
  \/ Preprocess

SpecTwoUsers == InitTwoUsers /\ [][NextTwoUsers]_vars

\* ---------------------------------------------------------------- claims
RowSet(rows) == {rows[i] : i \in 1..Len(rows)}

\* the standard games of a response, as rows
FetchedRows(games) == RowSet(Normalize(games))

\* the run loaded the games dataset that was published when it started
Loaded == run.existing = Published(run.drive0)

\* C1: after a run that completes, having loaded the published dataset, after
\* a run that completed, the published games dataset holds every row it held
\* before the run and every row newly fetched in the run.
C1_MergeAppendOnly ==
  (pc = "done" /\ run.prevDone /\ Loaded) =>
    /\ Published(drive) # {}
    /\ \A after \in Published(drive) :
         /\ \A before \in Published(run.drive0) : RowSet(before) \subseteq RowSet(after)
         /\ \A games \in run.fetched : FetchedRows(games) \subseteq RowSet(after)

\* C2: a run that completes, having loaded the published dataset, after a run
\* that completed, with no game added to Lichess in between, leaves the
\* published games dataset as the first run left it.
C2_Idempotent ==
  (pc = "done" /\ run.prevDone /\ ~run.fresh /\ Loaded) =>
    Published(drive) = Published(run.drive0)

\* the merge block of preprocess_and_upload.py has run on a non-empty batch
Merged ==
  /\ pc # "preprocess"
  /\ run.fetched # {} /\ run.fetched # {<<>>}
  /\ fs[OUTPUT_CSV] # {}

\* C3: the merged games dataset holds each game_id at most once, and for a
\* game_id of both the batch and the existing dataset the row kept is the
\* incoming one.
C3_DedupByGameId ==
  Merged =>
    LET merged == ReadFile(OUTPUT_CSV)
        incoming == FetchedRows(CHOOSE g \in run.fetched : TRUE)
    IN /\ DistinctGameIds(merged)
       /\ \A r \in RowSet(merged) :
            (\E n \in incoming : n.game_id = r.game_id) => r \in incoming

\* the largest created_at of a dataset, in milliseconds
MaxCreatedMs(rows) ==
  CHOOSE t \in {timestamp_ms(r.created_at) : r \in RowSet(rows)} :
    \A r \in RowSet(rows) : timestamp_ms(r.created_at) <= t

\* C4: when the dataset loaded by fetch_games has maximum created_at T > 0,
\* the games request carries since = T + 1 and no game created at or before T
\* is returned.
C4_Watermark ==
  \A d \in run.existing, p \in run.params :
    (d # <<>> /\ MaxCreatedMs(d) > 0) =>
      /\ p.since = {MaxCreatedMs(d) + 1}
      /\ \A games \in run.fetched : \A i \in 1..Len(games) : games[i].createdAt > MaxCreatedMs(d)

\* a request was issued with a watermark taken from a loaded dataset, and it
\* returned a game
C4_Witness ==
  /\ pc = "fetch_rating"
  /\ \E d \in run.existing, p \in run.params : d # <<>> /\ p.since # {}
  /\ \E games \in run.fetched : games # <<>>

\* C5: in a run that fails no upload has returned: no object of the folder
\* was created or updated by the run.
C5_NoMutationUnlessComplete ==
  pc = "failed" => run.uploaded = {}

\* C6: an upload_to_drive call that returns after k failed attempts made one
\* successful create/update and slept k times, for 2^0, 2^1, ..., 2^(k-1).
C6_RetryThenSuccess ==
  up.status = "ok" =>
    /\ up.writes = 1
    /\ up.attempts <= 5
    /\ Len(up.delays) = up.attempts - 1
    /\ \A i \in 1..Len(up.delays) : up.delays[i] = 2 ^ (i - 1)
    /\ \A i \in 1..(Len(up.delays) - 1) : up.delays[i] < up.delays[i + 1]

\* failures on attempts 1 and 2, success on attempt 3
C6_Witness == up.status = "ok" /\ up.attempts = 3 /\ up.delays = <<1, 2>>

\* C7: upload_to_drive makes at most 5 attempts; when the 5th fails with a
\* caught error the error propagates after exactly 4 delays, nothing was
\* reported as written and the run fails.
C7_ExhaustedRetries ==
  /\ up.attempts <= 5
  /\ (up.status = "raised" /\ up.err \subseteq Caught) =>
       /\ up.attempts = 5
       /\ up.delays = <<1, 2, 4, 8>>
       /\ up.writes = 0
       /\ pc = "failed" /\ exitCode # 0

C7_Witness == up.status = "raised" /\ up.err = {"IOError"} /\ up.attempts = 5

C10_BothArtifactsPublished ==
  pc = "done" =>
    /\ drive[GAMES_NAME] # {}
    /\ drive[RATING_CSV_NAME] # {}
    /\ \A r \in run.rating : \A f \in drive[RATING_CSV_NAME] :
         ~PivotRaises(rating_rows(r)) => f.content = RatingTable(rating_rows(r))

\* C11: once fetch_games.py has loaded a games dataset with zero rows (the
\* one the previous, completed run published), or found none and gone on, its
\* games request was issued without a since parameter.
C11_WatermarkNeverAborts ==
  /\ (run.existing = {<<>>} /\ run.prevDone) => run.params = {[since |-> {}]}
  /\ (run.existing = {} /\ pc \in {"fetch_rating", "preprocess", "done"}) =>
       run.params = {[since |-> {}]}

\* the arrival orders of the records of a batch
ArrivalOrders(batch) ==
  {[i \in 1..Len(batch) |-> batch[p[i]]] : p \in Permutations(1..Len(batch))}

\* the sort keys of a frame, in row order
Keys(rows) == [i \in 1..Len(rows) |-> rows[i].created_at]

\* C12: the merged dataset does not depend on the arrival order of the batch.
\* The sort sees the created_at keys only, so on two frames with the same key
\* sequence it moves the rows the same way: for every arrival order that
\* leaves the key sequence as it is (rows of one instant exchanged), moving
\* the rows as the merge moved them gives the same merged dataset.
C12_MergeDeterminism ==
  Merged =>
    LET batch == CHOOSE g \in run.fetched : TRUE
        merged == ReadFile(OUTPUT_CSV)
        rows1 == Combine(Normalize(batch), run.existing)
    IN \A q \in ArrivalOrders(batch) :
         LET rows2 == Combine(Normalize(q), run.existing)
         IN \A p \in Permutations(1..Len(rows1)) :
              (/\ Keys(rows2) = Keys(rows1)
               /\ [i \in 1..Len(rows1) |-> rows1[p[i]]] = merged)
                => [i \in 1..Len(rows2) |-> rows2[p[i]]] = merged

\* the rating table was built from the rating history given to the script
TableBuilt == pc # "preprocess" /\ fs[RATING_HISTORY_OUTPUT_CSV] # {}

\* the points of the rating history given to the script, dated
GivenPoints == rating_rows(CHOOSE r \in run.rating : TRUE)

\* the ratings of category c's latest point on or before a day
LatestOnOrBefore(points, c, day) ==
  {r.rating : r \in {x \in points : /\ x.category = c /\ x.date <= day
                                      /\ \A y \in points :
                                           (y.category = c /\ y.date <= day) => y.date <= x.date}}

\* C13: the rating table has exactly one row for each day from the first to
\* the last date of the points, and in each row the value of a category is the
\* rating of the category's latest point on or before that day, absent when
\* the category has no such point.
C13_RatingForwardFill ==
  TableBuilt =>
    LET table == ReadFile(RATING_HISTORY_OUTPUT_CSV)
        points == GivenPoints
        dates == {r.date : r \in points}
        days == {d \in 1..365 : (\E a \in dates : a <= d) /\ (\E b \in dates : d <= b)}
    IN /\ Len(table) = Cardinality(days)
       /\ \A d \in days : \E i \in 1..Len(table) : table[i].date = d
       /\ \A i \in 1..Len(table) :
            /\ table[i].date \in days
            /\ DOMAIN table[i].rating = {r.category : r \in points}
            /\ \A c \in DOMAIN table[i].rating :
                 table[i].rating[c] = LatestOnOrBefore(points, c, table[i].date)

\* a table with a day that has no point of a category and carries the
\* category's earlier rating, and a day before the first point of a category
C13_Witness ==
  /\ TableBuilt
  /\ LET table == ReadFile(RATING_HISTORY_OUTPUT_CSV)
     IN /\ \E i \in 1..Len(table) : \E c \in DOMAIN table[i].rating :
             /\ table[i].rating[c] # {}
             /\ ~\E r \in GivenPoints : r.category = c /\ r.date = table[i].date
        /\ \E i \in 1..Len(table) : \E c \in DOMAIN table[i].rating :
             table[i].rating[c] = {}

\* what belongs to the runs for username u: the local files, the Drive folder
\* and the objects of the folder
Owned(u) ==
  [fs |-> [p \in PathsOf(u) |-> fs[p]], folder |-> folder[u],
   drive |-> [n \in DriveNamesOf(u) |-> drive[n]]]

\* the datasets in the folder of username u are those a run for u alone
\* publishes: built from what Lichess holds for u
PublishedAlone(u) ==
  LET standard == {g \in source[u] : g.variant = "standard"}
  IN /\ \A f \in drive[<<u, basename(OUTPUT_CSV_For(u))>>] :
          /\ RowSet(f.content) =
               {NormalizeRow(g, \E x \in source[u] : x.tournament # {}) : g \in standard}
          /\ Len(f.content) = Cardinality(standard)
     /\ \A f \in drive[<<u, basename(OUTPUT_JSON_For(u))>>] : f.content = srcRating[u]

\* C14: when runs for two usernames are interleaved, a step of one run leaves
\* the local files, the folder and the objects of the other username as they
\* are, and the datasets published for each username are those its run
\* publishes alone.
C14_UserIsolation ==
  /\ [](\A u \in Users : PublishedAlone(u))
  /\ [][\A u \in Users \ {user} : Owned(u)' = Owned(u)]_vars

\* both runs completed, each having published its own games, the uploads of
\* one run falling between the uploads of the other
C14_Witness ==
  /\ pc = "done" /\ peer.pc = "done"
  /\ \E a \in drive[<<"alice", basename(OUTPUT_CSV_For("alice"))>>],
        b \in drive[<<"bob", basename(OUTPUT_CSV_For("bob"))>>],
        c \in drive[<<"alice", basename(OUTPUT_JSON_For("alice"))>>] :
       /\ a.id < b.id /\ b.id < c.id
       /\ a.content # <<>> /\ b.content # <<>>

\* the position of main() before each script of scripts_to_run, in order
ScriptOrder == <<"fetch_games", "fetch_rating", "preprocess">>

\* C15: main() runs the three scripts in the order fetch_games.py,
\* fetch_rating_history.py, preprocess_and_upload.py: it goes on to a script,
\* or to the end of the run, only from the script before it and with exit
\* code 0; a script that exits non-zero ends the run with that exit code, and
\* from there only a new run, from the first script, follows.
C15_ScriptsInOrder ==
  [][pc' # pc =>
       /\ \A i \in 2..3 : pc' = ScriptOrder[i] => (pc = ScriptOrder[i - 1] /\ exitCode' = 0)
       /\ pc' = "done" => (pc = ScriptOrder[3] /\ exitCode' = 0)
       /\ pc' = "failed" => ((\E i \in 1..3 : pc = ScriptOrder[i]) /\ exitCode' = 1)
       /\ pc' = ScriptOrder[1] => pc \in {"idle", "done", "failed"}
       /\ pc \in {"done", "failed"} => pc' = ScriptOrder[1]]_vars

\* fetch_games.py exited with 0 and fetch_rating_history.py with 1: the run
\* ended there, before preprocess_and_upload.py
C15_Witness ==
  /\ pc = "failed" /\ exitCode = 1
  /\ run.uploaded = {GAMES_NAME}
  /\ run.rating = {}

\* the ids of the objects of a name
Ids(d, n) == {f.id : f \in d[n]}

\* C16: whatever upload_to_drive calls have been made, with errors at the
\* lookup or at the write and writes that took effect before their error, a
\* folder holds at most one object of a name; a step leaves the object of a
\* name that exists in place (same id) and creates none beside it.
C16_AtMostOneObject ==
  /\ [](\A n \in DriveNames : Cardinality(drive[n]) <= 1)
  /\ [][\A n \in DriveNames : drive[n] # {} => Ids(drive', n) = Ids(drive, n)]_vars

\* the upload of fetch_games.py raised, so no write was reported, yet the
\* games object, absent when the run started, exists: a create took effect
\* before its error and the attempts after it found the object
C16_Witness ==
  /\ pc = "failed"
  /\ run.fetched # {} /\ run.uploaded = {}
  /\ run.drive0[GAMES_NAME] = {}
  /\ Cardinality(drive[GAMES_NAME]) = 1

\* the watermark fetch_games.py resolves from a published games dataset: 0
\* when there is none, no value when the dataset has no row (the resolution
\* raises), else the largest created_at in milliseconds
Resolved(published) ==
  IF published = {} THEN {0}
  ELSE {MaxCreatedMs(d) : d \in {x \in published : x # <<>>}}

\* C17: when fetch_games.py has completed, a watermark can be resolved from
\* the games dataset it published and is no smaller than the one resolved
\* from the dataset published when the run started; it is larger when the
\* run published a standard game that dataset did not hold.
C17_WatermarkMonotone ==
  pc = "fetch_rating" =>
    LET before == Resolved(Published(run.drive0))
        after == Resolved(Published(drive))
        new == \E games \in run.fetched, d \in Published(run.drive0) :
                 ~(FetchedRows(games) \subseteq RowSet(d))
    IN /\ after # {}
       /\ \A b \in before, a \in after : b <= a
       /\ new => \A b \in before, a \in after : b < a

\* C18: in the rows the merge block normalised from a batch, the tournament
\* flag of a row is true exactly when the raw record of that row carries a
\* tournament field.
C18_TournamentFlagPerRow ==
  Merged =>
    LET batch == CHOOSE g \in run.fetched : TRUE
        rows == Normalize(batch)
    IN \A i \in 1..Len(rows), j \in 1..Len(batch) :
         batch[j].id = rows[i].game_id => (rows[i].tournament <=> batch[j].tournament # {})

====
